---- MODULE Spec2Model ----
(***************************************************************************)
(* Model of the long-running Operation handle                              *)
(* (packages/speech/src/v1/speech_api.js, module functions/operation).     *)
(*                                                                         *)
(* An Operation is a Node EventEmitter.  Its constructor registers a       *)
(* 'newListener' and a 'removeListener' handler that count the registered  *)
(* 'complete' listeners and start the poll loop when the count leaves      *)
(* zero.  startPolling_ issues one get() per cycle; the callback of that   *)
(* get() emits 'error', arms a 500 ms timer, or emits 'complete'.          *)
(*                                                                         *)
(* The remote service and the timer queue are the environment: a get()     *)
(* that was issued is answered later by FetchRespond with any (err, resp)  *)
(* pair, and a timer that was armed expires later by TimerFire.            *)
(***************************************************************************)
EXTENDS Integers, Sequences, FiniteSets, TLC

\* ---------------------------------------------------------------- bounds
\* Largest number of listeners registered at once for one event name.
MaxListeners == 2
\* Largest number of get() calls the poller issues in one behaviour.
MaxFetches == 3
\* Largest number of promise() calls in one behaviour.
MaxPromises == 2
\* Largest number of direct cancel()/delete()/get() calls in one behaviour.
MaxDirect == 2

\* Largest number of get() calls the poller of the second Operation issues.
MaxSiblingFetches == 2
\* Largest number of cloudfunction.get() and .delete() calls in one behaviour.
MaxGets == 2
\* Largest number of createFunction calls in one behaviour.
MaxCreates == 2
\* Largest number of 'error' and 'finish' events the uploads emit.
MaxUploadEvents == 2

\* ----------------------------------------------------------- value sets
Events == {"complete", "error"}

None == "none"
\* Transport-level failures handed to the get() callback as err.
TransportErrors == {"T1"}
\* Values of resp.error (the logical failure field of the payload).
LogicalErrors == {"E1"}
\* Values of resp.result (the field the callback hands to decorateStatus_).
ResultPayloads == {"R1"}

\* Values of resp.response (the encoded result of a finished operation).
ResponsePayloads == {"V1"}

\* The payload of a get() answer; NoResp stands for a callback called with
\* an error and no response object.
NoResp == [error |-> None, done |-> FALSE, result |-> None, present |-> FALSE,
           response |-> None]
\* The response field is set only on a payload that is done and carries no
\* logical error.
Responses ==
    {r \in [error : {None} \cup LogicalErrors,
            done : BOOLEAN,
            result : {None} \cup ResultPayloads,
            present : {TRUE},
            response : {None} \cup ResponsePayloads] :
        r.response # None => (r.done /\ r.error = None)}

\* The (err, resp) pairs a get() callback can be called with: a response
\* object is present whenever err is not set.
Answers ==
    [err : {None} \cup TransportErrors, resp : Responses]
      \cup [err : TransportErrors, resp : {NoResp}]

NoAnswer == [err |-> None, resp |-> NoResp]
NoEmit == [event |-> None, arg |-> None]

\* The value of a missing argument or field.
Undefined == "undefined"
\* Operation names handed to the factory; the first is the valid one.
ValidName == "op1"
OpNames == {ValidName, "", Undefined}
\* The short name of the function handed to createFunction.
FunctionName == "fn1"

\* The remote methods of the Operations service an Operation calls directly.
Methods == {"cancel", "delete", "get"}

\* The delay, in milliseconds, of the re-poll timer.
PollDelay == 500

\* A promise returned by promise() before its executor ran a handler.
\* listens tells for each event whether the handler promise() registered for
\* it is still registered.
NewPromise == [state |-> "pending", value |-> None, resolves |-> 0, rejects |-> 0,
               listens |-> [e \in Events |-> TRUE]]

\* The events whose listeners the Operation counts through, and the argument
\* values of removeAllListeners: an event name, or Undefined for none.
MetaEvents == {"newListener", "removeListener"}

VARIABLES
    completeListeners,   \* this.completeListeners
    hasActiveListeners,  \* this.hasActiveListeners
    nOn,                 \* event -> number of listeners registered with on()
    nOnce,               \* event -> number of listeners registered with once()
    inFlight,            \* get() calls issued by the poller and not yet answered
    timers,              \* pending setTimeout(startPolling_) timers
    fetches,             \* get() calls issued by the poller so far
    emitted,             \* event -> number of emit(event, ...) calls so far
    thrown,              \* emit('error') calls that threw (no 'error' listener)
    answer,              \* the (err, resp) of the most recent get() callback
    listenersAtAnswer,   \* completeListeners when that callback started
    lastEmit,            \* what that callback emitted, NoEmit if nothing
    lastStep,            \* the operation that ran last
    completeSeen,        \* on/once('complete', ...) has been called at least once
    armed,               \* setTimeout calls made by the get() callback so far
    completeRemoved,     \* a 'complete' listener has been removed at least once
    lastDelay,           \* delay of the most recent setTimeout call, 0 if none
    lastFetch,           \* the request of the most recent get() of the poller
    idleExpiries,        \* timer expiries since the listener count last fell to 0
    listening,           \* which handlers of listenForEvents_ are still registered
    promises,            \* the promises returned by promise(), in call order
    probe,               \* event of the listener registered after a terminal event
    probeInvoked,        \* that listener has been called
    rpc,                 \* direct cancel/delete/get requests not yet answered
    rpcIssued,           \* direct requests sent so far
    rpcCallbacks,        \* callbacks of direct requests called so far
    rpcResult,           \* what the most recent such callback received
    handle,              \* the first Operation asked for: "none", "created",
                         \* or "threw" (the factory threw)
    name,                \* its this.name
    metadata,            \* its metadata
    intercept,           \* the 'complete' interceptor of createFunction is on it
    created,             \* what the callback of createFunction received
    createPending,       \* createFunction: the calls made, the uploads whose
                         \* handlers are registered, those of them with a
                         \* pubsubTrigger, the events they emitted, the
                         \* create RPCs not yet answered, and whether an
                         \* upload handed an error to the callback
    sibling,             \* a second Operation of the same parent client
    fnName,              \* CloudFunction: this.name
    fnMetadata,          \* CloudFunction: this.metadata
    fnRequests,          \* getFunction/deleteFunction requests not yet answered
    fnIssued,            \* cloudfunction.get() and .delete() calls so far
    fnResult             \* what the most recent callback of these received

poller == <<completeListeners, hasActiveListeners, nOn, nOnce, inFlight, timers,
            fetches, emitted, thrown, answer, listenersAtAnswer, lastEmit,
            completeSeen, armed, completeRemoved, lastDelay, lastFetch,
            idleExpiries, listening>>
direct == <<rpc, rpcIssued, rpcCallbacks, rpcResult>>
construction == <<handle, name, metadata, intercept, created, createPending>>
func == <<fnName, fnMetadata, fnRequests, fnIssued, fnResult>>

vars == <<completeListeners, hasActiveListeners, nOn, nOnce, inFlight, timers,
          fetches, emitted, thrown, answer, listenersAtAnswer, lastEmit,
          lastStep, completeSeen, armed, completeRemoved, lastDelay,
          lastFetch, idleExpiries, listening, promises, probe,
          probeInvoked, rpc, rpcIssued, rpcCallbacks, rpcResult, handle, name,
          metadata, intercept, created, createPending, sibling, fnName,
          fnMetadata,
          fnRequests, fnIssued, fnResult>>

\* --------------------------------------------------------------- helpers

\* common.GrpcService.decorateStatus_: turns a status payload into an error
\* object.  Kept abstract: the decorated value remembers what it was made of.
decorateStatus_(payload) == "decorated(" \o payload \o ")"

Registered(event) == nOn[event] + nOnce[event]

\* startPolling_ without the listener check at its top.
startPolling_NoGuard(active) == 1

\* The guard at the top of startPolling_: 1 when the cycle issues a get(),
\* 0 when it returns at once.
startPolling_(active) == IF ~active THEN 0 ELSE 1

\* 'newListener' handler that counts listeners of every event.
newListener_AnyEvent(event, cl, active) ==
    IF ~active
    THEN [cl |-> cl + 1, active |-> TRUE, gets |-> 1]
    ELSE [cl |-> cl + 1, active |-> active, gets |-> 0]

\* 'newListener' handler that starts a poll loop for every 'complete' listener.
newListener_AlwaysStart(event, cl, active) ==
    IF event = "complete"
    THEN [cl |-> cl + 1, active |-> TRUE, gets |-> 1]
    ELSE [cl |-> cl, active |-> active, gets |-> 0]

\* 'newListener' handler that sets the flag without starting the poll loop.
newListener_NoStart(event, cl, active) ==
    IF event = "complete"
    THEN [cl |-> cl + 1, active |-> TRUE, gets |-> 0]
    ELSE [cl |-> cl, active |-> active, gets |-> 0]

\* 'newListener' handler: the fields after the handler ran for `event`, and
\* the number of get() calls it issued.
newListener(event, cl, active) ==
    IF event = "complete"
    THEN IF ~active
         THEN [cl |-> cl + 1, active |-> TRUE, gets |-> startPolling_(TRUE)]
         ELSE [cl |-> cl + 1, active |-> active, gets |-> 0]
    ELSE [cl |-> cl, active |-> active, gets |-> 0]

\* 'removeListener' handler that never clears the flag.
removeListener_KeepFlag(event, cl, active) ==
    IF event = "complete"
    THEN [cl |-> cl - 1, active |-> active]
    ELSE [cl |-> cl, active |-> active]

\* 'removeListener' handler that counts the listeners of every event.
removeListener_AnyEvent(event, cl, active) ==
    IF cl - 1 = 0
    THEN [cl |-> cl - 1, active |-> FALSE]
    ELSE [cl |-> cl - 1, active |-> active]

\* 'removeListener' handler: the fields after the handler ran for `event`.
removeListener(event, cl, active) ==
    IF event = "complete"
    THEN IF cl - 1 = 0
         THEN [cl |-> cl - 1, active |-> FALSE]
         ELSE [cl |-> cl - 1, active |-> active]
    ELSE [cl |-> cl, active |-> active]

\* The 'removeListener' handler run n times in a row (emit() removes every
\* once() listener of the event before calling it).
RECURSIVE removeListenerTimes(_, _, _, _)
removeListenerTimes(n, event, cl, active) ==
    IF n = 0
    THEN [cl |-> cl, active |-> active]
    ELSE LET r == removeListener(event, cl, active)
         IN removeListenerTimes(n - 1, event, r.cl, r.active)

\* Re-poll delay that grows with the number of timers armed before.
pollDelay_Backoff(armedBefore) == PollDelay * (armedBefore + 1)

\* The delay argument of the setTimeout call in the get() callback, given
\* the number of timers the Operation armed before.
pollDelay(armedBefore) == PollDelay

\* EventEmitter.emit that throws for every event without a listener.
emitThrows_AnyEvent(event, listeners) == listeners = 0

\* EventEmitter.emit(event, ...) throws its argument when the event is
\* 'error' and no listener is registered for it.
emitThrows(event, listeners) == event = "error" /\ listeners = 0

\* EventEmitter emits 'newListener' before it adds a listener of `event`:
\* the handler of listenForEvents_ runs if it is still registered (wired).
emitNewListener(event, cl, active, wired) ==
    IF wired
    THEN newListener(event, cl, active)
    ELSE [cl |-> cl, active |-> active, gets |-> 0]

\* EventEmitter emits 'removeListener' after each of n listeners of `event`
\* it removed: the handler of listenForEvents_ runs if it is still registered.
emitRemoveListener(n, event, cl, active, wired) ==
    IF wired
    THEN removeListenerTimes(n, event, cl, active)
    ELSE [cl |-> cl, active |-> active]

\* The failure test of the get() callback.
isFailure(err, resp) == err # None \/ resp.error # None

\* Error argument that prefers the logical error of the payload.
errorArg_LogicalFirst(err, resp) ==
    IF resp.error # None THEN decorateStatus_(resp.result) ELSE err

\* The argument of emit('error', ...) in the get() callback.
errorArg(err, resp) ==
    IF err # None THEN err ELSE decorateStatus_(resp.result)

\* get() callback whose error branch lacks its return and falls through to
\* the re-poll test.
pollOutcome_NoReturn(err, resp) ==
    IF isFailure(err, resp)
    THEN [event |-> "error", arg |-> errorArg(err, resp),
          timer |-> IF ~resp.done THEN 1 ELSE 0]
    ELSE IF ~resp.done
         THEN [event |-> None, arg |-> None, timer |-> 1]
         ELSE [event |-> "complete", arg |-> resp, timer |-> 0]

\* get() callback with the done test inverted.
pollOutcome_InvertedDone(err, resp) ==
    IF isFailure(err, resp)
    THEN [event |-> "error", arg |-> errorArg(err, resp), timer |-> 0]
    ELSE IF resp.done
         THEN [event |-> None, arg |-> None, timer |-> 1]
         ELSE [event |-> "complete", arg |-> resp, timer |-> 0]

\* get() callback that does not arm the re-poll timer.
pollOutcome_NoRepoll(err, resp) ==
    IF isFailure(err, resp)
    THEN [event |-> "error", arg |-> errorArg(err, resp), timer |-> 0]
    ELSE IF ~resp.done
         THEN [event |-> None, arg |-> None, timer |-> 0]
         ELSE [event |-> "complete", arg |-> resp, timer |-> 0]

\* What the get() callback does with (err, resp).
pollOutcome(err, resp) ==
    IF isFailure(err, resp)
    THEN [event |-> "error", arg |-> errorArg(err, resp), timer |-> 0]
    ELSE IF ~resp.done
         THEN [event |-> None, arg |-> None, timer |-> 1]
         ELSE [event |-> "complete", arg |-> resp, timer |-> 0]

\* Function names without a '/': the short names.
ShortNames == {"fn1"}

\* api.Functions.functionPath(projectId, region, name)
functionPath(projectId, region, fname) ==
    "projects/" \o projectId \o "/locations/" \o region
        \o "/functions/" \o fname

\* The names a CloudFunction is constructed with: short or already formatted.
FunctionNames == ShortNames \cup {functionPath("p2", "r2", "fn2")}

\* name.indexOf('/') > -1
hasSlash(fname) == fname \notin ShortNames

\* projectId and region of the Functions client.
ClientDefaults == [projectId |-> "p0", region |-> "r0"]

\* Functions.prototype._formatName: a formatted name is kept, a short one
\* is put under the project and region, those of the client where the
\* argument is empty (projectId || this.projectId, region || this.region).
_formatName(projectId, region, fname) ==
    IF hasSlash(fname)
    THEN fname
    ELSE functionPath(IF projectId = "" THEN ClientDefaults.projectId
                                        ELSE projectId,
                      IF region = "" THEN ClientDefaults.region ELSE region,
                      fname)

\* extend(target, source): the fields of source written over target.
extend(target, source) ==
    [k \in DOMAIN target \cup DOMAIN source |->
        IF k \in DOMAIN source THEN source[k] ELSE target[k]]

\* The config objects a CloudFunction is constructed with.
Configs == {[projectId |-> "p1"], [region |-> "r1"],
            [projectId |-> "p1", region |-> "r1"],
            [projectId |-> ""], [region |-> ""]}

\* new CloudFunction(functions, fname, config): the fields of the instance.
CloudFunction(fname, config) ==
    LET c == extend(ClientDefaults, config)
    IN [name |-> fname,
        metadata |-> extend(c, [name |-> _formatName(c.projectId, c.region,
                                                     fname)])]

\* CloudFunction.decode: the decoded form of an encoded operation result.
decode(value) == [decoded |-> value]

\* Functions.prototype.cloudfunction(name, options):
\* new CloudFunction(this, name, options).
cloudfunction(fname, config) == CloudFunction(fname, config)

\* The 'complete' interceptor installed by createFunction: the arguments the
\* listeners of 'complete' are called with when emit('complete', resp) runs.
interceptComplete(resp) ==
    <<IF resp.response # None
      THEN cloudfunction(FunctionName, decode(resp.response))
      ELSE Undefined,
      resp>>

\* The arguments the listeners of `event` are called with for emit(event, arg).
listenerArgs(event, arg, icpt) ==
    IF event = "complete" /\ icpt THEN interceptComplete(arg) ELSE <<arg>>

\* promise() whose 'complete' handler resolves with all the arguments.
resolveValue_AllArgs(args) == args

\* The value the 'complete' handler of promise() resolves with.
resolveValue(args) == <<args[1]>>

\* The listeners of promise() called with args for `event`: the handler is
\* counted, and a pending promise is settled.
settle(p, event, args) ==
    IF event = "error"
    THEN [state |-> IF p.state = "pending" THEN "rejected" ELSE p.state,
          value |-> IF p.state = "pending" THEN args[1] ELSE p.value,
          resolves |-> p.resolves,
          rejects |-> p.rejects + 1,
          listens |-> p.listens]
    ELSE [state |-> IF p.state = "pending" THEN "resolved" ELSE p.state,
          value |-> IF p.state = "pending" THEN resolveValue(args) ELSE p.value,
          resolves |-> p.resolves + 1,
          rejects |-> p.rejects,
          listens |-> p.listens]

\* Listeners of `event` that are not the user's plain on() listeners: the
\* registered handlers of promise() and the listener registered after a
\* terminal event.
Reserved(event) ==
    Cardinality({i \in DOMAIN promises : promises[i].listens[event]})
        + (IF probe = event THEN 1 ELSE 0)

\* The name test of Functions.prototype.operation.
nameMissing(n) == n = Undefined \/ n = ""

\* Functions.prototype.operation without its name test.
operation_NoCheck(n) == "created"

\* Functions.prototype.operation: throws when the name is missing, returns a
\* new Operation otherwise.
operation(n) == IF nameMissing(n) THEN "threw" ELSE "created"

\* cancel() that sends the request under a name of its own.
directRequest_WrongName(method, opName) ==
    [api |-> CASE method = "cancel" -> "cancelOperation"
               [] method = "delete" -> "deleteOperation"
               [] method = "get" -> "getOperation",
     name |-> IF method = "cancel" THEN Undefined ELSE opName]

\* Operation.prototype.cancel / delete / get: the remote method called and
\* the name in its reqOpts.
directRequest(method, opName) ==
    [api |-> CASE method = "cancel" -> "cancelOperation"
               [] method = "delete" -> "deleteOperation"
               [] method = "get" -> "getOperation",
     name |-> opName]

\* get() of the poller sent under one fixed name.
pollRequest_FixedName(opName) == directRequest("get", ValidName)

\* this.get(callback) in startPolling_: the request of the poller.
pollRequest(opName) == directRequest("get", opName)

NoFetch == [api |-> None, name |-> Undefined]

\* The (err, resp) pairs the Operations service answers a direct request with.
DirectAnswers == {[err |-> None, resp |-> "R"], [err |-> "T1", resp |-> None]}

NoResult == [api |-> None, err |-> None, resp |-> None]

\* An API response of createFunction that was not received.
NoMetadata == [name |-> Undefined]
\* The arguments of the callback of createFunction: the error, the name and
\* the metadata of the Operation handed over, and the API response.
NoCreated == [err |-> None, operation |-> Undefined, metadata |-> NoMetadata,
              apiResponse |-> NoMetadata]

\* How createFunction is given the source: a gcsUrl, a localDir to upload
\* to a stageBucket, a localDir that is not a string, or a stageBucket that
\* is not a string.
Uploads == {"gcsUrl", "localDir", "badLocalDir", "badStageBucket"}

\* The trigger of the function in the config of createFunction: none, a
\* gcsTrigger (a bucket), a pubsubTrigger (a topic, plain or already in the
\* form projects/{projectId}/topics/{topicName}) or an httpsTrigger.
PubsubTopics == {"topic1", "projects/p0/topics/t"}
FormattedTopics == {"projects/p0/topics/t"}
Triggers ==
    [kind : {None}, value : {None}]
      \cup [kind : {"gcsTrigger"}, value : {"bucket1"}]
      \cup [kind : {"pubsubTrigger"}, value : PubsubTopics]
      \cup [kind : {"httpsTrigger"}, value : {"true"}]

\* _formatPubsubTrigger(projectId, topicName): topicName.indexOf throws a
\* TypeError when topicName is undefined; a topic that begins with
\* 'projects/' is returned as it is, any other is put behind the project
\* (the value is the list of the parts joined).
_formatPubsubTrigger(projectId, topicName) ==
    IF topicName = Undefined
    THEN [threw |-> TRUE, value |-> <<>>]
    ELSE [threw |-> FALSE,
          value |-> IF topicName \in FormattedTopics
                    THEN <<topicName>>
                    ELSE <<"projects/", projectId, "/topics/", topicName>>]

\* makeRequest(err, gcsUrl) of createFunction, for a body with the given
\* trigger: on an error the callback is called with it; otherwise the
\* trigger is formatted and the create RPC is sent.  A pubsubTrigger is
\* formatted by _formatPubsubTrigger(body.pubsubTrigger), with the topic in
\* the place of projectId and no topicName, which throws.
makeRequest(err, trigger) ==
    IF err # None THEN "callback"
    ELSE IF /\ trigger.kind = "pubsubTrigger"
            /\ _formatPubsubTrigger(trigger.value, Undefined).threw
         THEN "threw"
         ELSE "request"

\* The errors of _uploadLocalDir: the argument checks, and a stream error.
BadLocalDir == "A localDir string must be provided."
BadStageBucket == "A stageBucket string must be provided."
UploadErrors == {"U1"}

\* createFunction not called yet.
NoPending ==
    [calls |-> 0, uploads |-> 0, pubsub |-> 0, events |-> 0, rpcs |-> 0,
     failed |-> FALSE]

\* What the callback of api.Functions.createFunction is called with: an
\* error, or a response that carries the name of the started operation.
CreateAnswers ==
    [err : TransportErrors, response : {NoMetadata}]
      \cup [err : {None}, response : [name : OpNames]]

\* The Operation createFunction makes from the response of the create RPC:
\* named by response.name, given the response as metadata, and patched
\* with the 'complete' interceptor.
createOperation(response) ==
    [name |-> response.name, metadata |-> response, intercept |-> TRUE]

\* The name of the second Operation of the parent client.
SiblingName == "op2"

\* new Operation(parent, SiblingName): the fields of the second Operation.
\* Its 'complete' listeners are registered with on() only, so that
\* completeListeners is also their number.
NewSibling ==
    [name |-> SiblingName,
     completeListeners |-> 0,
     hasActiveListeners |-> FALSE,
     inFlight |-> 0,
     timers |-> 0,
     fetches |-> 0,
     emitted |-> [e \in Events |-> 0],
     lastFetch |-> NoFetch]

\* The answers of the Operations service in the two-Operation
\* specification: one of each kind the get() callback tells apart.
TwinAnswers ==
    {a \in Answers :
        /\ a.resp.present
        /\ a.resp.result = None
        /\ a.resp.response = None
        /\ a.err # None => (a.resp.error = None /\ ~a.resp.done)
        /\ a.resp.error # None => ~a.resp.done}

\* The resources api.Functions.getFunction answers a request for fname with.
FunctionResources(fname) ==
    {[name |-> fname, status |-> "READY"],
     [name |-> fname, status |-> "DEPLOYING"],
     [name |-> fname, status |-> "READY", region |-> "r1"]}

\* The (err, response) pairs of the getFunction callback for a request.
GetAnswers(fname) ==
    [err : TransportErrors, response : {NoMetadata}]
      \cup [err : {None}, response : FunctionResources(fname)]

NoFnResult == [err |-> None, fn |-> Undefined, apiResponse |-> NoMetadata]

\* get() that replaces the metadata by the response.
getOutcome_Replace(err, response, md) ==
    IF err # None
    THEN [err |-> err, fn |-> "null", apiResponse |-> response,
          metadata |-> md]
    ELSE [err |-> None, fn |-> "self", apiResponse |-> response,
          metadata |-> response]

\* The callback of getFunction in CloudFunction.prototype.get: the
\* arguments of the user's callback (fn is "self" for the instance get()
\* was called on) and this.metadata afterwards.
getOutcome(err, response, md) ==
    IF err # None
    THEN [err |-> err, fn |-> "null", apiResponse |-> response,
          metadata |-> md]
    ELSE [err |-> None, fn |-> "self", apiResponse |-> response,
          metadata |-> extend(md, response)]

\* ------------------------------------------------------------------ init
\* new Operation(parent, name)
Init ==
    /\ completeListeners = 0
    /\ hasActiveListeners = FALSE
    /\ nOn = [e \in Events |-> 0]
    /\ nOnce = [e \in Events |-> 0]
    /\ inFlight = 0
    /\ timers = 0
    /\ fetches = 0
    /\ emitted = [e \in Events |-> 0]
    /\ thrown = 0
    /\ answer = NoAnswer
    /\ listenersAtAnswer = 0
    /\ lastEmit = NoEmit
    /\ lastStep = "new"
    /\ completeSeen = FALSE
    /\ armed = 0
    /\ completeRemoved = FALSE
    /\ lastDelay = 0
    /\ lastFetch = NoFetch
    /\ idleExpiries = 0
    /\ listening = [e \in MetaEvents |-> TRUE]
    /\ promises = <<>>
    /\ probe = None
    /\ probeInvoked = FALSE
    /\ rpc = <<>>
    /\ rpcIssued = 0
    /\ rpcCallbacks = 0
    /\ rpcResult = NoResult
    /\ handle = "created"
    /\ name = ValidName
    /\ metadata = NoMetadata
    /\ intercept = FALSE
    /\ created = NoCreated
    /\ createPending = NoPending
    /\ sibling = NewSibling
    /\ fnName = Undefined
    /\ fnMetadata = NoMetadata
    /\ fnRequests = <<>>
    /\ fnIssued = 0
    /\ fnResult = NoFnResult

\* --------------------------------------------------------------- actions

\* operation.on(event, listener) / operation.once(event, listener):
\* EventEmitter emits 'newListener' and then adds the listener.
Registration(event, once) ==
    LET r == emitNewListener(event, completeListeners, hasActiveListeners,
                             listening["newListener"])
    IN /\ Registered(event) < MaxListeners
       /\ r.cl <= MaxListeners
       /\ fetches + r.gets <= MaxFetches
       /\ completeListeners' = r.cl
       /\ hasActiveListeners' = r.active
       /\ inFlight' = inFlight + r.gets
       /\ fetches' = fetches + r.gets
       /\ IF once
          THEN /\ nOnce' = [nOnce EXCEPT ![event] = @ + 1]
               /\ UNCHANGED nOn
          ELSE /\ nOn' = [nOn EXCEPT ![event] = @ + 1]
               /\ UNCHANGED nOnce
       /\ lastFetch' = IF r.gets > 0 THEN pollRequest(name) ELSE lastFetch
       /\ idleExpiries' = IF r.cl > 0 THEN 0 ELSE idleExpiries
       /\ lastStep' = "Subscribe"
       /\ completeSeen' = (completeSeen \/ event = "complete")
       /\ UNCHANGED <<timers, emitted, thrown, answer, listenersAtAnswer,
                      lastEmit, armed, completeRemoved, lastDelay, listening,
                      promises, probeInvoked, direct, construction, sibling,
                      func>>

Subscribe(event, once) ==
    /\ Registration(event, once)
    /\ UNCHANGED probe

On == \E event \in Events : Subscribe(event, FALSE)

Once == \E event \in Events : Subscribe(event, TRUE)

\* operation.on(event, listener) called after a terminal event was emitted;
\* the listener is remembered.
LateOn ==
    \E event \in Events :
        /\ emitted["complete"] + emitted["error"] > 0
        /\ probe = None
        /\ Registration(event, FALSE)
        /\ probe' = event

\* EventEmitter.removeListener for one registered listener of `event`: the
\* listener is removed and then 'removeListener' is emitted.
Removal(event, once) ==
    LET r == emitRemoveListener(1, event, completeListeners,
                                hasActiveListeners,
                                listening["removeListener"])
    IN /\ IF once THEN nOnce[event] > 0 ELSE nOn[event] > 0
       /\ r.cl >= 0 - MaxListeners
       /\ completeListeners' = r.cl
       /\ hasActiveListeners' = r.active
       /\ IF once
          THEN /\ nOnce' = [nOnce EXCEPT ![event] = @ - 1]
               /\ UNCHANGED nOn
          ELSE /\ nOn' = [nOn EXCEPT ![event] = @ - 1]
               /\ UNCHANGED nOnce
       /\ idleExpiries' = IF r.cl # completeListeners THEN 0 ELSE idleExpiries
       /\ lastStep' = "Unsubscribe"
       /\ completeRemoved' = (completeRemoved \/ event = "complete")
       /\ UNCHANGED <<inFlight, timers, fetches, emitted, thrown, answer,
                      listenersAtAnswer, lastEmit, completeSeen, armed,
                      lastDelay, lastFetch, listening, promises,
                      probeInvoked, direct, construction, sibling, func>>

\* operation.removeListener(event, listener) for a listener registered by
\* on() or once() other than the handlers of promise() and the listener
\* LateOn registered.
Unsubscribe(event, once) ==
    /\ once \/ nOn[event] > Reserved(event)
    /\ Removal(event, once)
    /\ UNCHANGED probe

\* operation.removeListener(event, lateFn) for the listener LateOn
\* registered.
UnsubscribeLate(event) ==
    /\ probe = event
    /\ Removal(event, FALSE)
    /\ probe' = None

RemoveLate == \E event \in Events : UnsubscribeLate(event)

\* operation.removeListener(event, h) for the handler h that the i-th
\* promise() registered for `event` (h is in operation.listeners(event)).
RemovePromiseListener(i, event) ==
    LET r == emitRemoveListener(1, event, completeListeners,
                                hasActiveListeners,
                                listening["removeListener"])
    IN /\ i \in DOMAIN promises
       /\ promises[i].listens[event]
       /\ r.cl >= 0 - MaxListeners
       /\ completeListeners' = r.cl
       /\ hasActiveListeners' = r.active
       /\ nOn' = [nOn EXCEPT ![event] = @ - 1]
       /\ promises' = [promises EXCEPT ![i].listens[event] = FALSE]
       /\ idleExpiries' = IF r.cl # completeListeners THEN 0 ELSE idleExpiries
       /\ lastStep' = "Unsubscribe"
       /\ completeRemoved' = (completeRemoved \/ event = "complete")
       /\ UNCHANGED <<nOnce, inFlight, timers, fetches, emitted, thrown, answer,
                      listenersAtAnswer, lastEmit, completeSeen, armed,
                      lastDelay, lastFetch, listening, probe, probeInvoked,
                      direct, construction, sibling, func>>

RemovePromiseHandler ==
    \E i \in 1..MaxPromises, event \in Events : RemovePromiseListener(i, event)

\* operation.removeAllListeners(arg), inherited from EventEmitter.  With an
\* event name it removes every listener of that event, emitting
\* 'removeListener' after each; without an argument (Undefined) it does so
\* for every event but 'removeListener' and removes the 'removeListener'
\* listeners last.  The handlers of listenForEvents_ are listeners of
\* 'newListener' and 'removeListener' and are removed like any other.
RemoveAllListeners(arg) ==
    LET evs == IF arg = Undefined THEN Events ELSE {arg} \cap Events
        gone == IF arg = Undefined THEN MetaEvents ELSE {arg} \cap MetaEvents
        n(e) == IF e \in evs THEN Registered(e) ELSE 0
        r1 == emitRemoveListener(n("error"), "error", completeListeners,
                                 hasActiveListeners,
                                 listening["removeListener"])
        r == emitRemoveListener(n("complete"), "complete", r1.cl, r1.active,
                                listening["removeListener"])
    IN /\ \/ \E e \in evs : Registered(e) > 0
          \/ \E m \in gone : listening[m]
       /\ r.cl >= 0 - MaxListeners
       /\ completeListeners' = r.cl
       /\ hasActiveListeners' = r.active
       /\ nOn' = [e \in Events |-> IF e \in evs THEN 0 ELSE nOn[e]]
       /\ nOnce' = [e \in Events |-> IF e \in evs THEN 0 ELSE nOnce[e]]
       /\ promises' =
            [i \in DOMAIN promises |->
               [promises[i] EXCEPT
                  !.listens = [e \in Events |-> @[e] /\ e \notin evs]]]
       /\ probe' = IF probe \in evs THEN None ELSE probe
       /\ listening' = [m \in MetaEvents |-> listening[m] /\ m \notin gone]
       /\ idleExpiries' = IF r.cl # completeListeners THEN 0 ELSE idleExpiries
       /\ completeRemoved' = (completeRemoved \/ n("complete") > 0)
       /\ lastStep' = "removeAllListeners"
       /\ UNCHANGED <<inFlight, timers, fetches, emitted, thrown, answer,
                      listenersAtAnswer, lastEmit, completeSeen, armed,
                      lastDelay, lastFetch, probeInvoked, direct,
                      construction, sibling, func>>

\* removeAllListeners() and removeAllListeners('complete' / 'error').
RemoveAll == \E arg \in Events \cup {Undefined} : RemoveAllListeners(arg)

\* removeAllListeners('newListener' / 'removeListener').
RemoveMeta == \E arg \in MetaEvents : RemoveAllListeners(arg)

RemoveListener == \E event \in Events, once \in BOOLEAN : Unsubscribe(event, once)

\* operation.promise(): the executor registers reject for 'error' and then a
\* resolving handler for 'complete', both with on().
PromiseCall ==
    LET r1 == emitNewListener("error", completeListeners, hasActiveListeners,
                              listening["newListener"])
        r2 == emitNewListener("complete", r1.cl, r1.active,
                              listening["newListener"])
    IN /\ Len(promises) < MaxPromises
       /\ Registered("error") < MaxListeners
       /\ Registered("complete") < MaxListeners
       /\ fetches + r1.gets + r2.gets <= MaxFetches
       /\ completeListeners' = r2.cl
       /\ hasActiveListeners' = r2.active
       /\ inFlight' = inFlight + r1.gets + r2.gets
       /\ fetches' = fetches + r1.gets + r2.gets
       /\ nOn' = [e \in Events |-> nOn[e] + 1]
       /\ promises' = Append(promises, NewPromise)
       /\ lastFetch' = IF r1.gets + r2.gets > 0
                       THEN pollRequest(name) ELSE lastFetch
       /\ idleExpiries' = IF r2.cl > 0 THEN 0 ELSE idleExpiries
       /\ lastStep' = "Promise"
       /\ completeSeen' = TRUE
       /\ UNCHANGED <<nOnce, timers, emitted, thrown, answer,
                      listenersAtAnswer, lastEmit, armed, completeRemoved,
                      lastDelay, listening, probe, probeInvoked, direct,
                      construction, sibling, func>>

\* The callback of this.get() in startPolling_, called with (a.err, a.resp).
\* emit(event) removes the once() listeners of the event (each removal runs
\* the 'removeListener' handler) and calls every listener; emit('error')
\* without an 'error' listener throws.
Callback(a) ==
    LET o == pollOutcome(a.err, a.resp)
        r == IF o.event = None
             THEN [cl |-> completeListeners, active |-> hasActiveListeners]
             ELSE emitRemoveListener(nOnce[o.event], o.event,
                                     completeListeners, hasActiveListeners,
                                     listening["removeListener"])
    IN /\ inFlight > 0
       /\ r.cl >= 0 - MaxListeners
       /\ inFlight' = inFlight - 1
       /\ timers' = timers + o.timer
       /\ armed' = armed + o.timer
       /\ lastDelay' = IF o.timer > 0 THEN pollDelay(armed) ELSE lastDelay
       /\ idleExpiries' = IF r.cl # completeListeners THEN 0 ELSE idleExpiries
       /\ completeListeners' = r.cl
       /\ hasActiveListeners' = r.active
       /\ IF o.event = None
          THEN UNCHANGED <<nOnce, emitted, thrown, promises, probeInvoked,
                           completeRemoved>>
          ELSE /\ nOnce' = [nOnce EXCEPT ![o.event] = 0]
               /\ emitted' = [emitted EXCEPT ![o.event] = @ + 1]
               /\ thrown' = IF emitThrows(o.event, Registered(o.event))
                            THEN thrown + 1 ELSE thrown
               /\ promises' =
                    [i \in DOMAIN promises |->
                       IF promises[i].listens[o.event]
                       THEN settle(promises[i], o.event,
                                   listenerArgs(o.event, o.arg, intercept))
                       ELSE promises[i]]
               /\ probeInvoked' = (probeInvoked \/ probe = o.event)
               /\ completeRemoved' =
                    (completeRemoved
                       \/ (o.event = "complete" /\ nOnce["complete"] > 0))
       /\ answer' = a
       /\ listenersAtAnswer' = completeListeners
       /\ lastEmit' = [event |-> o.event, arg |-> o.arg]
       /\ lastStep' = "FetchRespond"
       /\ UNCHANGED <<nOn, fetches, completeSeen, lastFetch, listening, probe,
                      direct, construction, sibling, func>>

FetchRespond == \E a \in Answers : Callback(a)

\* Expiry of a timer armed by the get() callback: runs startPolling_.
TimerFire ==
    LET gets == startPolling_(hasActiveListeners)
    IN /\ timers > 0
       /\ fetches + gets <= MaxFetches
       /\ timers' = timers - 1
       /\ inFlight' = inFlight + gets
       /\ fetches' = fetches + gets
       /\ lastFetch' = IF gets > 0 THEN pollRequest(name) ELSE lastFetch
       /\ idleExpiries' = IF completeListeners = 0
                          THEN idleExpiries + 1 ELSE idleExpiries
       /\ lastStep' = "TimerFire"
       /\ UNCHANGED <<completeListeners, hasActiveListeners, nOn, nOnce,
                      emitted, thrown, answer, listenersAtAnswer, lastEmit,
                      completeSeen, armed, completeRemoved, lastDelay,
                      listening, promises, probe, probeInvoked, direct,
                      construction, sibling, func>>

\* operation.cancel(cb) / operation.delete(cb) / operation.get(cb) called by
\* the user: one request to the Operations service.
Direct(method) ==
    /\ rpcIssued < MaxDirect
    /\ rpc' = Append(rpc, directRequest(method, name))
    /\ rpcIssued' = rpcIssued + 1
    /\ lastStep' = "DirectCall"
    /\ UNCHANGED <<poller, promises, probe, probeInvoked, rpcCallbacks,
                   rpcResult, construction, sibling, func>>

DirectCall == \E method \in Methods : Direct(method)

\* The Operations service answers the i-th outstanding direct request: the
\* user's callback is called with the answer as it is.
DirectAnswer(i, a) ==
    /\ i \in DOMAIN rpc
    /\ rpc' = SubSeq(rpc, 1, i - 1) \o SubSeq(rpc, i + 1, Len(rpc))
    /\ rpcCallbacks' = rpcCallbacks + 1
    /\ rpcResult' = [api |-> rpc[i].api, err |-> a.err, resp |-> a.resp]
    /\ lastStep' = "DirectRespond"
    /\ UNCHANGED <<poller, promises, probe, probeInvoked, rpcIssued,
                   construction, sibling, func>>

DirectRespond == \E i \in 1..MaxDirect, a \in DirectAnswers : DirectAnswer(i, a)

Next ==
    \/ On
    \/ Once
    \/ RemoveListener
    \/ FetchRespond
    \/ TimerFire

Spec == Init /\ [][Next]_vars

\* The Operation used through promise() as well as through on() and
\* removeListener().
NextPromise ==
    \/ PromiseCall
    \/ On
    \/ RemoveListener
    \/ FetchRespond
    \/ TimerFire

SpecPromise == Init /\ [][NextPromise]_vars

\* The Operation with promises whose handlers are removed again, by
\* removeListener or by removeAllListeners.
NextRemoval ==
    \/ PromiseCall
    \/ RemovePromiseHandler
    \/ RemoveAll
    \/ FetchRespond
    \/ TimerFire

SpecRemoval == Init /\ [][NextRemoval]_vars

\* The Operation whose listeners are removed by removeAllListeners.
NextRemoveAll ==
    \/ On
    \/ RemoveAll
    \/ FetchRespond
    \/ TimerFire

SpecRemoveAll == Init /\ [][NextRemoveAll]_vars

\* The Operation whose own 'newListener' and 'removeListener' handlers are
\* removed one by one as well.
NextDetach ==
    \/ On
    \/ RemoveAll
    \/ RemoveMeta
    \/ FetchRespond
    \/ TimerFire

SpecDetach == Init /\ [][NextDetach]_vars

\* The Operation with a listener that is registered after a terminal event.
NextLate ==
    \/ LateOn
    \/ On
    \/ Once
    \/ RemoveListener
    \/ RemoveLate
    \/ FetchRespond
    \/ TimerFire

SpecLate == Init /\ [][NextLate]_vars

\* The Operation polled for 'complete' subscribers while the user calls
\* cancel(), delete() and get() directly.
NextDirect ==
    \/ DirectCall
    \/ DirectRespond
    \/ Subscribe("complete", FALSE)
    \/ Unsubscribe("complete", FALSE)
    \/ FetchRespond
    \/ TimerFire

SpecDirect == Init /\ [][NextDirect]_vars

\* State before any Operation exists: a Functions client only.
InitFunctions ==
    /\ completeListeners = 0
    /\ hasActiveListeners = FALSE
    /\ nOn = [e \in Events |-> 0]
    /\ nOnce = [e \in Events |-> 0]
    /\ inFlight = 0
    /\ timers = 0
    /\ fetches = 0
    /\ emitted = [e \in Events |-> 0]
    /\ thrown = 0
    /\ answer = NoAnswer
    /\ listenersAtAnswer = 0
    /\ lastEmit = NoEmit
    /\ lastStep = "new"
    /\ completeSeen = FALSE
    /\ armed = 0
    /\ completeRemoved = FALSE
    /\ lastDelay = 0
    /\ lastFetch = NoFetch
    /\ idleExpiries = 0
    /\ listening = [e \in MetaEvents |-> TRUE]
    /\ promises = <<>>
    /\ probe = None
    /\ probeInvoked = FALSE
    /\ rpc = <<>>
    /\ rpcIssued = 0
    /\ rpcCallbacks = 0
    /\ rpcResult = NoResult
    /\ handle = "none"
    /\ name = ValidName
    /\ metadata = NoMetadata
    /\ intercept = FALSE
    /\ created = NoCreated
    /\ createPending = NoPending
    /\ sibling = NewSibling
    /\ fnName = Undefined
    /\ fnMetadata = NoMetadata
    /\ fnRequests = <<>>
    /\ fnIssued = 0
    /\ fnResult = NoFnResult

\* functions.operation(n): throws, or returns new Operation(this, n).
Factory(n) ==
    /\ handle = "none"
    /\ handle' = operation(n)
    /\ name' = n
    /\ lastStep' = "operation"
    /\ UNCHANGED <<poller, promises, probe, probeInvoked, direct, metadata,
                   intercept, created, createPending, sibling, func>>

OperationCall == \E n \in OpNames : Factory(n)

\* functions.createFunction(name, config, callback) up to its return.  With
\* a gcsUrl makeRequest runs at once: the create RPC is sent, or, with a
\* pubsubTrigger, the TypeError of _formatPubsubTrigger leaves
\* createFunction with no RPC sent and the callback not called.  With a
\* localDir the upload is started and its three handlers are registered;
\* with a localDir or a stageBucket that is not a string _uploadLocalDir
\* calls the callback with an error at once.
CreateFunction(upload, trigger) ==
    /\ createPending.calls < MaxCreates
    /\ lastStep' = "createFunction"
    /\ CASE upload = "gcsUrl" ->
              /\ createPending' =
                     IF makeRequest(None, trigger) = "threw"
                     THEN [createPending EXCEPT !.calls = @ + 1]
                     ELSE [createPending EXCEPT !.calls = @ + 1,
                                                !.rpcs = @ + 1]
              /\ UNCHANGED created
         [] upload = "localDir" ->
              /\ createPending' =
                     [createPending EXCEPT
                        !.calls = @ + 1,
                        !.uploads = @ + 1,
                        !.pubsub = IF trigger.kind = "pubsubTrigger"
                                   THEN @ + 1 ELSE @]
              /\ UNCHANGED created
         [] upload = "badLocalDir" ->
              /\ makeRequest(BadLocalDir, trigger) = "callback"
              /\ createPending' = [createPending EXCEPT !.calls = @ + 1,
                                                        !.failed = TRUE]
              /\ created' = [NoCreated EXCEPT !.err = BadLocalDir]
         [] upload = "badStageBucket" ->
              /\ makeRequest(BadStageBucket, trigger) = "callback"
              /\ createPending' = [createPending EXCEPT !.calls = @ + 1,
                                                        !.failed = TRUE]
              /\ created' = [NoCreated EXCEPT !.err = BadStageBucket]
    /\ UNCHANGED <<poller, promises, probe, probeInvoked, direct, handle,
                   name, metadata, intercept, sibling, func>>

CreateFunctionCall ==
    \E upload \in Uploads, trigger \in Triggers :
        CreateFunction(upload, trigger)

\* An upload of createFunction, started for a body with the given trigger,
\* emits an event: 'error' (of the output stream or of the archive), which
\* is handed to the callback alone, or 'finish', after which makeRequest
\* sends the create RPC or, with a pubsubTrigger, throws inside the
\* handler.  The three handlers stay registered, so that either event acts
\* whatever was emitted before.
UploadDone(uploadErr, trigger) ==
    /\ IF trigger.kind = "pubsubTrigger"
       THEN createPending.pubsub > 0
       ELSE createPending.uploads > createPending.pubsub
    /\ createPending.events < MaxUploadEvents
    /\ lastStep' = "uploadDone"
    /\ CASE makeRequest(uploadErr, trigger) = "callback" ->
              /\ created' = [NoCreated EXCEPT !.err = uploadErr]
              /\ createPending' = [createPending EXCEPT !.events = @ + 1,
                                                        !.failed = TRUE]
         [] makeRequest(uploadErr, trigger) = "threw" ->
              /\ createPending' = [createPending EXCEPT !.events = @ + 1]
              /\ UNCHANGED created
         [] makeRequest(uploadErr, trigger) = "request" ->
              /\ createPending' = [createPending EXCEPT !.events = @ + 1,
                                                        !.rpcs = @ + 1]
              /\ UNCHANGED created
    /\ UNCHANGED <<poller, promises, probe, probeInvoked, direct, handle,
                   name, metadata, intercept, sibling, func>>

UploadFinish ==
    \E uploadErr \in {None} \cup UploadErrors, trigger \in Triggers :
        UploadDone(uploadErr, trigger)

\* A create RPC of createFunction is answered with a.  On an error the
\* callback receives (err, null, response).  On success the operation is
\* made by this.operation(response.name), which throws on a missing name;
\* it is given the response as metadata and patched with the 'complete'
\* interceptor, and the callback receives it.  It becomes the Operation
\* followed here when none was asked for before.
CreateAnswer(a) ==
    /\ createPending.rpcs > 0
    /\ createPending' = [createPending EXCEPT !.rpcs = @ - 1]
    /\ lastStep' = "createRespond"
    /\ IF a.err # None
       THEN /\ created' = [err |-> a.err, operation |-> None,
                           metadata |-> NoMetadata,
                           apiResponse |-> a.response]
            /\ UNCHANGED <<handle, name, metadata, intercept>>
       ELSE /\ IF operation(a.response.name) = "created"
               THEN created' = [err |-> None,
                                operation |-> createOperation(a.response).name,
                                metadata |-> createOperation(a.response).metadata,
                                apiResponse |-> a.response]
               ELSE UNCHANGED created
            /\ IF handle # "none"
               THEN UNCHANGED <<handle, name, metadata, intercept>>
               ELSE /\ handle' = operation(a.response.name)
                    /\ name' = a.response.name
                    /\ IF operation(a.response.name) = "created"
                       THEN /\ metadata' = createOperation(a.response).metadata
                            /\ intercept' = createOperation(a.response).intercept
                       ELSE UNCHANGED <<metadata, intercept>>
    /\ UNCHANGED <<poller, promises, probe, probeInvoked, direct, sibling,
                   func>>

CreateRespond == \E a \in CreateAnswers : CreateAnswer(a)

\* The subscriptions, promises, answers and timer expiries of an Operation
\* that exists.
NextHandle ==
    \/ PromiseCall
    \/ On
    \/ FetchRespond
    \/ TimerFire

HandleStep ==
    /\ handle = "created"
    /\ NextHandle

NextFunctions ==
    \/ OperationCall
    \/ CreateFunctionCall
    \/ UploadFinish
    \/ CreateRespond
    \/ HandleStep

SpecFunctions == InitFunctions /\ [][NextFunctions]_vars

\* The Operation used through promise() only, against a server that answers
\* every get() without error and reports done after at most MaxFetches - 1
\* answers that are not done; 'error' listeners come and go.
LiveAnswers == {a \in Answers : a.err = None /\ a.resp.error = None}

LiveRespond ==
    \E a \in LiveAnswers :
        /\ armed >= MaxFetches - 1 => a.resp.done
        /\ Callback(a)

OnError == \E once \in BOOLEAN : Subscribe("error", once)

OffError == \E once \in BOOLEAN : Unsubscribe("error", once)

NextLive ==
    \/ PromiseCall
    \/ OnError
    \/ OffError
    \/ LiveRespond
    \/ TimerFire

\* Every outstanding get() is answered and every pending timer expires.
SpecLive ==
    /\ Init
    /\ [][NextLive]_vars
    /\ WF_vars(LiveRespond)
    /\ WF_vars(TimerFire)

\* on('complete', listener) of the second Operation.
SiblingOn ==
    LET r == newListener("complete", sibling.completeListeners,
                         sibling.hasActiveListeners)
    IN /\ sibling.completeListeners < MaxListeners
       /\ sibling.fetches + r.gets <= MaxSiblingFetches
       /\ sibling' = [sibling EXCEPT
                        !.completeListeners = r.cl,
                        !.hasActiveListeners = r.active,
                        !.inFlight = @ + r.gets,
                        !.fetches = @ + r.gets,
                        !.lastFetch = IF r.gets > 0
                                      THEN pollRequest(sibling.name) ELSE @]
       /\ lastStep' = "SiblingOn"
       /\ UNCHANGED <<poller, promises, probe, probeInvoked, direct,
                      construction, func>>

\* removeListener('complete', listener) of the second Operation.
SiblingRemoveListener ==
    LET r == removeListener("complete", sibling.completeListeners,
                            sibling.hasActiveListeners)
    IN /\ sibling.completeListeners > 0
       /\ sibling' = [sibling EXCEPT
                        !.completeListeners = r.cl,
                        !.hasActiveListeners = r.active]
       /\ lastStep' = "SiblingRemoveListener"
       /\ UNCHANGED <<poller, promises, probe, probeInvoked, direct,
                      construction, func>>

\* The callback of a get() of the second Operation.
SiblingRespond ==
    \E a \in TwinAnswers :
        LET o == pollOutcome(a.err, a.resp)
        IN /\ sibling.inFlight > 0
           /\ sibling' = [sibling EXCEPT
                            !.inFlight = @ - 1,
                            !.timers = @ + o.timer,
                            !.emitted = IF o.event = None THEN @
                                        ELSE [@ EXCEPT ![o.event] = @ + 1]]
           /\ lastStep' = "SiblingRespond"
           /\ UNCHANGED <<poller, promises, probe, probeInvoked, direct,
                          construction, func>>

\* Expiry of a timer of the second Operation.
SiblingTimerFire ==
    LET gets == startPolling_(sibling.hasActiveListeners)
    IN /\ sibling.timers > 0
       /\ sibling.fetches + gets <= MaxSiblingFetches
       /\ sibling' = [sibling EXCEPT
                        !.timers = @ - 1,
                        !.inFlight = @ + gets,
                        !.fetches = @ + gets,
                        !.lastFetch = IF gets > 0
                                      THEN pollRequest(sibling.name) ELSE @]
       /\ lastStep' = "SiblingTimerFire"
       /\ UNCHANGED <<poller, promises, probe, probeInvoked, direct,
                      construction, func>>

TwinRespond == \E a \in TwinAnswers : Callback(a)

\* Two Operations of one parent client, each with on('complete') listeners
\* that come and go, each polled and answered on its own.
NextTwin ==
    \/ Subscribe("complete", FALSE)
    \/ Unsubscribe("complete", FALSE)
    \/ TwinRespond
    \/ TimerFire
    \/ SiblingOn
    \/ SiblingRemoveListener
    \/ SiblingRespond
    \/ SiblingTimerFire

SpecTwin == Init /\ [][NextTwin]_vars

\* State after new CloudFunction(functions, fname, config); no Operation.
InitCloudFunction ==
    /\ completeListeners = 0
    /\ hasActiveListeners = FALSE
    /\ nOn = [e \in Events |-> 0]
    /\ nOnce = [e \in Events |-> 0]
    /\ inFlight = 0
    /\ timers = 0
    /\ fetches = 0
    /\ emitted = [e \in Events |-> 0]
    /\ thrown = 0
    /\ answer = NoAnswer
    /\ listenersAtAnswer = 0
    /\ lastEmit = NoEmit
    /\ lastStep = "new"
    /\ completeSeen = FALSE
    /\ armed = 0
    /\ completeRemoved = FALSE
    /\ lastDelay = 0
    /\ lastFetch = NoFetch
    /\ idleExpiries = 0
    /\ listening = [e \in MetaEvents |-> TRUE]
    /\ promises = <<>>
    /\ probe = None
    /\ probeInvoked = FALSE
    /\ rpc = <<>>
    /\ rpcIssued = 0
    /\ rpcCallbacks = 0
    /\ rpcResult = NoResult
    /\ handle = "none"
    /\ name = ValidName
    /\ metadata = NoMetadata
    /\ intercept = FALSE
    /\ created = NoCreated
    /\ createPending = NoPending
    /\ sibling = NewSibling
    /\ \E fname \in FunctionNames, config \in Configs :
          /\ fnName = CloudFunction(fname, config).name
          /\ fnMetadata = CloudFunction(fname, config).metadata
    /\ fnRequests = <<>>
    /\ fnIssued = 0
    /\ fnResult = NoFnResult

\* cloudfunction.get(callback): one getFunction request under
\* this.metadata.name.
FunctionGet ==
    /\ fnIssued < MaxGets
    /\ fnRequests' = Append(fnRequests, [api |-> "getFunction",
                                         name |-> fnMetadata.name])
    /\ fnIssued' = fnIssued + 1
    /\ lastStep' = "FunctionGet"
    /\ UNCHANGED <<poller, promises, probe, probeInvoked, direct,
                   construction, sibling, fnName, fnMetadata, fnResult>>

\* cloudfunction.delete(callback): one deleteFunction request under
\* this.metadata.name.
FunctionDelete ==
    /\ fnIssued < MaxGets
    /\ fnRequests' = Append(fnRequests, [api |-> "deleteFunction",
                                         name |-> fnMetadata.name])
    /\ fnIssued' = fnIssued + 1
    /\ lastStep' = "FunctionDelete"
    /\ UNCHANGED <<poller, promises, probe, probeInvoked, direct,
                   construction, sibling, fnName, fnMetadata, fnResult>>

\* The Functions service answers the i-th outstanding request, a
\* getFunction request.
FunctionAnswer(i, a) ==
    LET o == getOutcome(a.err, a.response, fnMetadata)
    IN /\ fnRequests[i].api = "getFunction"
       /\ fnRequests' = SubSeq(fnRequests, 1, i - 1)
                          \o SubSeq(fnRequests, i + 1, Len(fnRequests))
       /\ fnMetadata' = o.metadata
       /\ fnResult' = [err |-> o.err, fn |-> o.fn,
                       apiResponse |-> o.apiResponse]
       /\ lastStep' = "FunctionRespond"
       /\ UNCHANGED <<poller, promises, probe, probeInvoked, direct,
                      construction, sibling, fnName, fnIssued>>

FunctionRespond ==
    \E i \in DOMAIN fnRequests :
        \E a \in GetAnswers(fnRequests[i].name) : FunctionAnswer(i, a)

\* The Functions service answers the i-th outstanding request, a
\* deleteFunction request.  On an error the callback receives
\* (err, null, response); on success the operation is made by
\* functions.operation(response.name), which throws on a missing name, is
\* given the response as metadata (no interceptor) and handed to the
\* callback.  It becomes the Operation followed here when none was asked
\* for before.
DeleteAnswer(i, a) ==
    /\ fnRequests[i].api = "deleteFunction"
    /\ fnRequests' = SubSeq(fnRequests, 1, i - 1)
                       \o SubSeq(fnRequests, i + 1, Len(fnRequests))
    /\ lastStep' = "DeleteRespond"
    /\ IF a.err # None
       THEN /\ fnResult' = [err |-> a.err, fn |-> "null",
                            apiResponse |-> a.response]
            /\ UNCHANGED <<handle, name, metadata>>
       ELSE /\ fnResult' = IF operation(a.response.name) = "created"
                           THEN [err |-> None, fn |-> "operation",
                                 apiResponse |-> a.response]
                           ELSE fnResult
            /\ IF handle # "none"
               THEN UNCHANGED <<handle, name, metadata>>
               ELSE /\ handle' = operation(a.response.name)
                    /\ name' = a.response.name
                    /\ metadata' = IF operation(a.response.name) = "created"
                                   THEN a.response ELSE metadata
    /\ UNCHANGED <<poller, promises, probe, probeInvoked, direct, intercept,
                   created, createPending, sibling, fnName, fnMetadata,
                   fnIssued>>

DeleteRespond ==
    \E i \in DOMAIN fnRequests, a \in CreateAnswers : DeleteAnswer(i, a)

NextCloudFunction ==
    \/ FunctionGet
    \/ FunctionDelete
    \/ FunctionRespond
    \/ DeleteRespond

SpecCloudFunction == InitCloudFunction /\ [][NextCloudFunction]_vars

\* ------------------------------------------------------------ type check
TypeOK ==
    /\ completeListeners \in (0 - MaxListeners)..MaxListeners
    /\ listening \in [MetaEvents -> BOOLEAN]
    /\ createPending.calls \in 0..MaxCreates
    /\ createPending.uploads \in 0..MaxCreates
    /\ createPending.pubsub \in 0..createPending.uploads
    /\ createPending.events \in 0..MaxUploadEvents
    /\ createPending.rpcs \in 0..(MaxCreates + MaxUploadEvents)
    /\ createPending.failed \in BOOLEAN
    /\ hasActiveListeners \in BOOLEAN
    /\ nOn \in [Events -> 0..MaxListeners]
    /\ nOnce \in [Events -> 0..MaxListeners]
    /\ inFlight \in 0..MaxFetches
    /\ timers \in 0..MaxFetches
    /\ fetches \in 0..MaxFetches
    /\ emitted \in [Events -> 0..MaxFetches]
    /\ thrown \in 0..MaxFetches
    /\ answer \in Answers \cup {NoAnswer}
    /\ armed \in 0..MaxFetches
    /\ completeRemoved \in BOOLEAN
    /\ lastDelay \in {0, PollDelay}
    /\ idleExpiries \in 0..MaxFetches
    /\ Len(promises) <= MaxPromises
    /\ probe \in {None} \cup Events
    /\ Len(rpc) <= MaxDirect
    /\ rpcIssued \in 0..MaxDirect
    /\ rpcCallbacks \in 0..MaxDirect
    /\ handle \in {"none", "created", "threw"}
    /\ intercept \in BOOLEAN
    /\ sibling.completeListeners \in 0..MaxListeners
    /\ sibling.fetches \in 0..MaxSiblingFetches
    /\ Len(fnRequests) <= MaxGets
    /\ fnIssued \in 0..MaxGets

\* ================================================================ claims

PollLoops == inFlight + timers
Terminals == emitted["complete"] + emitted["error"]

\* C1: at most one polling loop exists at any time: outstanding status
\* fetches plus pending re-poll timers never exceed one.
C1_AtMostOnePollLoop == PollLoops <= 1

\* C2: once 'complete' or 'error' has been emitted, no status fetch is ever
\* issued again, whatever subscriptions and unsubscriptions follow.
C2_NoFetchAfterTerminal == [][Terminals > 0 => fetches' = fetches]_vars

\* C3: as long as no 'complete' subscriber has been registered, the poller
\* has issued no fetch, the listener count is zero and the polling flag is
\* false, also when 'error' listeners have been registered.
C3_NoFetchBeforeFirstComplete ==
    ~completeSeen =>
        /\ fetches = 0
        /\ inFlight = 0
        /\ timers = 0
        /\ completeListeners = 0
        /\ ~hasActiveListeners

C3_Witness ==
    /\ ~completeSeen
    /\ lastStep = "Subscribe"
    /\ Registered("error") = 2
    /\ fetches = 0

\* C4: at most one terminal event is emitted over the lifetime of an
\* Operation: 'complete' emissions plus 'error' emissions never exceed one.
C4_AtMostOneTerminalEvent == Terminals <= 1

\* C5 (as stated): polling is active (a fetch outstanding or a timer
\* pending) if and only if a 'complete' listener is registered.
C5_PollingIffListeners == (PollLoops > 0) <=> (Registered("complete") > 0)

\* The 'newListener' and 'removeListener' handlers of listenForEvents_ are
\* both registered: no removeAllListeners call has removed one.
Wired == listening["newListener"] /\ listening["removeListener"]

\* C5 (amended): the polling flag hasActiveListeners is true if and only if
\* the counter completeListeners is greater than zero; as long as the
\* handlers of listenForEvents_ are registered that counter is the number
\* of registered 'complete' listeners, so that the flag is true if and only
\* if a 'complete' listener is registered; and while the counter is greater
\* than zero and no terminal event has been emitted, polling is active (a
\* fetch is outstanding or a timer pending).
C5_FlagIffListeners ==
    /\ hasActiveListeners <=> (completeListeners > 0)
    /\ Wired => /\ completeListeners = Registered("complete")
                /\ hasActiveListeners <=> (Registered("complete") > 0)
    /\ (completeListeners > 0 /\ Terminals = 0) => PollLoops > 0

C5_Witness ==
    /\ Wired
    /\ hasActiveListeners
    /\ Registered("complete") > 0
    /\ Terminals = 0
    /\ armed >= 1
    /\ PollLoops > 0

\* A step that registers one more 'complete' listener while one is registered.
FurtherSubscriber ==
    /\ completeListeners > 0
    /\ Registered("complete")' = Registered("complete") + 1

\* C6 (as stated): registering a further 'complete' subscriber while one is
\* registered issues no fetch, only increments the listener counter, and
\* exactly one poll loop is active afterwards.
C6_FurtherSubscriberOneLoop ==
    [][FurtherSubscriber =>
         /\ fetches' = fetches
         /\ completeListeners' = completeListeners + 1
         /\ PollLoops' = 1]_vars

\* C6 (amended): registering a further 'complete' subscriber while one is
\* registered issues no fetch and starts no poll loop: it only increments
\* the listener counter, and the outstanding fetches and pending timers are
\* the ones there were before.
C6_FurtherSubscriberNoNewLoop ==
    [][FurtherSubscriber =>
         /\ fetches' = fetches
         /\ completeListeners' = completeListeners + 1
         /\ hasActiveListeners' = hasActiveListeners
         /\ inFlight' = inFlight
         /\ timers' = timers]_vars

C6_Witness ==
    /\ lastStep = "Subscribe"
    /\ completeListeners = 2
    /\ fetches = 1
    /\ PollLoops = 1

\* C7: when the first fetch is answered after its only subscriber
\* unsubscribed, the answer schedules no further fetch: it arms no re-poll
\* timer and issues no fetch.
C7_IdleAnswerArmsNoTimer ==
    [][(lastStep' = "FetchRespond" /\ fetches = 1 /\ completeListeners = 0) =>
         /\ timers' = timers
         /\ fetches' = fetches]_vars

\* C8: the answer of a fetch that arrives when the last 'complete'
\* subscriber has unsubscribed is discarded: neither 'complete' nor 'error'
\* is emitted for it.
C8_IdleAnswerDiscarded ==
    (lastStep = "FetchRespond" /\ listenersAtAnswer = 0) => lastEmit = NoEmit

\* C9: while the listener count stays at zero at most one further fetch is
\* issued; the poller in fact issues none: no step that starts and ends with
\* a listener count of zero issues a fetch.
C9_NoFetchWhileIdle ==
    [][(completeListeners = 0 /\ completeListeners' = 0) =>
         fetches' = fetches]_vars

C9_Witness ==
    /\ lastStep = "TimerFire"
    /\ completeListeners = 0
    /\ fetches = 2
    /\ PollLoops = 0

\* C10: a fetch answered with both a transport error and a payload whose
\* logical error field is set emits 'error' carrying exactly the transport
\* error, and emits no 'complete'.
C10_TransportErrorPrecedence ==
    [][(/\ lastStep' = "FetchRespond"
        /\ answer'.err # None
        /\ answer'.resp.error # None) =>
         /\ lastEmit' = [event |-> "error", arg |-> answer'.err]
         /\ emitted'["error"] = emitted["error"] + 1
         /\ emitted'["complete"] = emitted["complete"]]_vars

C10_Witness ==
    /\ lastStep = "FetchRespond"
    /\ answer.err \in TransportErrors
    /\ answer.resp.error \in LogicalErrors
    /\ lastEmit.event = "error"
    /\ emitted["error"] > 0

\* A step in which a get() is answered without a transport error and with
\* the logical error field of the payload populated.
LogicalFailureAnswered ==
    /\ lastStep' = "FetchRespond"
    /\ answer'.err = None
    /\ answer'.resp.error # None

\* C11: a fetch that succeeds at the transport level with the payload's
\* error field populated emits 'error' whose argument is the decoration of
\* that populated error field, and emits no 'complete', also when done is
\* true.
C11_LogicalErrorDecorated ==
    [][LogicalFailureAnswered =>
         /\ lastEmit' = [event |-> "error",
                         arg |-> decorateStatus_(answer'.resp.error)]
         /\ emitted'["complete"] = emitted["complete"]]_vars

\* A step in which a get() is answered with a transport error or with a
\* payload whose logical error field is populated.
FailureAnswered ==
    /\ lastStep' = "FetchRespond"
    /\ (answer'.err # None \/ answer'.resp.error # None)

\* C12: a failed poll cycle is not retried: the answer emits 'error' exactly
\* once and nothing else, arms no timer, issues no fetch, and the loop that
\* issued the fetch is gone afterwards.
C12_FailedCycleNotRetried ==
    [][FailureAnswered =>
         /\ emitted'["error"] = emitted["error"] + 1
         /\ emitted'["complete"] = emitted["complete"]
         /\ lastEmit'.event = "error"
         /\ timers' = timers
         /\ fetches' = fetches
         /\ PollLoops' = PollLoops - 1]_vars

C12_Witness ==
    /\ lastStep = "FetchRespond"
    /\ answer.err = None
    /\ answer.resp.error \in LogicalErrors
    /\ ~answer.resp.done
    /\ emitted["error"] = 1
    /\ fetches = 1
    /\ PollLoops = 0

\* A step in which a get() is answered without error and with done = true
\* while a 'complete' subscriber is registered.
DoneAnswered ==
    /\ lastStep' = "FetchRespond"
    /\ answer'.err = None
    /\ answer'.resp.error = None
    /\ answer'.resp.done
    /\ completeListeners > 0

\* C13: an error-free answer with done = true that arrives while a
\* 'complete' subscriber is registered emits 'complete' carrying exactly the
\* answered payload and arms no timer; and as long as no 'complete' listener
\* was ever removed, once 'complete' has fired it has fired exactly once,
\* the fetches issued are the k not-done answers (each armed one timer) plus
\* one, and no fetch or timer is left.
C13_DoneCompletes ==
    /\ [][DoneAnswered =>
            /\ lastEmit'.event = "complete"
            /\ lastEmit'.arg = answer'.resp
            /\ emitted'["complete"] = emitted["complete"] + 1
            /\ emitted'["error"] = emitted["error"]
            /\ timers' = timers
            /\ armed' = armed]_vars
    /\ []((~completeRemoved /\ emitted["complete"] > 0) =>
            /\ emitted["complete"] = 1
            /\ emitted["error"] = 0
            /\ fetches = armed + 1
            /\ PollLoops = 0)

C13_Witness ==
    /\ ~completeRemoved
    /\ lastStep = "FetchRespond"
    /\ emitted["complete"] = 1
    /\ lastEmit.event = "complete"
    /\ armed = 2
    /\ fetches = 3

\* C14: promise() acts on the poller as on('error', h) followed by
\* on('complete', g): one listener more for each event; on an idle Operation
\* the listener counter goes from 0 to 1, the polling flag becomes true and
\* exactly one fetch is issued; on an Operation whose flag is set the counter
\* is incremented and no fetch is issued; timers and emitted events are left
\* as they were, so the answers that follow act on the same poller state.
C14_PromiseSubscribes ==
    [][lastStep' = "Promise" =>
         /\ nOn' = [e \in Events |-> nOn[e] + 1]
         /\ nOnce' = nOnce
         /\ completeListeners' = completeListeners + 1
         /\ hasActiveListeners'
         /\ IF hasActiveListeners
            THEN fetches' = fetches /\ inFlight' = inFlight
            ELSE fetches' = fetches + 1 /\ inFlight' = inFlight + 1
         /\ (completeListeners = 0 => ~hasActiveListeners)
         /\ timers' = timers
         /\ armed' = armed
         /\ emitted' = emitted]_vars

C14_Witness ==
    /\ lastStep = "Promise"
    /\ Len(promises) = 1
    /\ completeListeners = 1
    /\ Registered("error") = 1
    /\ hasActiveListeners
    /\ fetches = 1
    /\ inFlight = 1

\* C15: a promise of promise() is settled by exactly one of resolve and
\* reject and its handlers are invoked exactly once in total: a promise that
\* is pending had no handler invoked, a resolved one had resolve invoked once
\* and reject never, a rejected one reject once and resolve never; a pending
\* promise is resolved only by a step that emits 'complete', with the list
\* holding the metadata of that event, and rejected only by a step that
\* emits 'error', with the error of that event.
C15_PromiseSettledOnce ==
    /\ [](\A i \in DOMAIN promises :
            LET p == promises[i]
            IN /\ p.resolves + p.rejects <= 1
               /\ (p.state = "pending") = (p.resolves + p.rejects = 0)
               /\ (p.state = "resolved") = (p.resolves = 1)
               /\ (p.state = "rejected") = (p.rejects = 1))
    /\ [][\A i \in DOMAIN promises :
            promises'[i].state # promises[i].state =>
              /\ promises[i].state = "pending"
              /\ lastStep' = "FetchRespond"
              /\ IF promises'[i].state = "resolved"
                 THEN /\ lastEmit'.event = "complete"
                      /\ promises'[i].value = <<lastEmit'.arg>>
                 ELSE /\ lastEmit'.event = "error"
                      /\ promises'[i].value = lastEmit'.arg]_vars

\* C16 (as stated): with promise() as the only source of 'complete'
\* listeners, a server that answers every fetch without error and
\* eventually reports done, and every fetch answered and every timer
\* served, every promise of promise() is eventually resolved.
C16_EveryPromiseResolved ==
    \A i \in 1..(MaxPromises + 1) :
        (i \in DOMAIN promises /\ promises[i].state = "pending")
          ~> (i \in DOMAIN promises /\ promises[i].state = "resolved")

\* C16 (amended): under the same conditions, a promise that is pending
\* while 'complete' has not been emitted yet is eventually resolved.
C16_PromiseEventuallyResolved ==
    \A i \in 1..(MaxPromises + 1) :
        (/\ i \in DOMAIN promises
         /\ promises[i].state = "pending"
         /\ emitted["complete"] = 0)
          ~> (i \in DOMAIN promises /\ promises[i].state = "resolved")

C16_Witness ==
    /\ Len(promises) >= 1
    /\ promises[1].state = "resolved"
    /\ promises[1].resolves = 1
    /\ armed >= 1
    /\ fetches = armed + 1
    /\ nOn["complete"] = Len(promises)
    /\ nOnce["complete"] = 0

\* C17: the promise of the operation returned by createFunction resolves
\* with a list of two elements: the CloudFunction built from the decoded
\* operation response, and the final operation response, whose done field
\* is true.
C17_CreatePromiseResolvesPair ==
    \A i \in DOMAIN promises :
        (intercept /\ promises[i].state = "resolved") =>
            /\ Len(promises[i].value) = 2
            /\ promises[i].value[2].done
            /\ promises[i].value[2].response # None =>
                 promises[i].value[1] =
                   cloudfunction(FunctionName,
                                 decode(promises[i].value[2].response))

\* C20: a handle asked for without a name (missing or empty) is never
\* produced: the factory throws at once, and no fetch is issued, no listener
\* counted and nothing emitted for that name.
C20_NamelessHandleRefused ==
    /\ [](nameMissing(name) =>
            /\ handle # "created"
            /\ fetches = 0
            /\ inFlight = 0
            /\ timers = 0
            /\ completeListeners = 0
            /\ Terminals = 0
            /\ thrown = 0)
    /\ [][(lastStep' = "operation" /\ nameMissing(name')) =>
            /\ handle' = "threw"
            /\ UNCHANGED <<poller, promises, direct>>]_vars

C20_Witness ==
    /\ lastStep = "operation"
    /\ name = ""
    /\ handle = "threw"
    /\ fetches = 0

\* C18: a 'complete' or 'error' listener registered after the terminal event
\* was emitted is never invoked.
C18_LateListenerNeverInvoked == ~probeInvoked

\* C19: a direct cancel(), delete() or get() sends exactly one request, of
\* the matching remote method and keyed by the Operation's name; its answer
\* is handed to the callback once and as it is, and the request is not sent
\* again; neither the call nor its answer changes the poller (listener
\* counter, polling flag, outstanding fetches, timers, emitted events).
C19_DirectCallsPassThrough ==
    [][/\ lastStep' = "DirectCall" =>
            /\ rpcIssued' = rpcIssued + 1
            /\ Len(rpc') = Len(rpc) + 1
            /\ SubSeq(rpc', 1, Len(rpc)) = rpc
            /\ rpc'[Len(rpc')].name = name
            /\ rpc'[Len(rpc')].api \in
                 {"cancelOperation", "deleteOperation", "getOperation"}
            /\ rpcCallbacks' = rpcCallbacks
            /\ UNCHANGED <<poller, promises>>
       /\ lastStep' = "DirectRespond" =>
            /\ rpcCallbacks' = rpcCallbacks + 1
            /\ Len(rpc') = Len(rpc) - 1
            /\ rpcIssued' = rpcIssued
            /\ [err |-> rpcResult'.err, resp |-> rpcResult'.resp]
                 \in DirectAnswers
            /\ UNCHANGED <<poller, promises>>]_vars

C19_Witness ==
    /\ lastStep = "DirectRespond"
    /\ rpcResult.api = "cancelOperation"
    /\ rpcResult.err = None
    /\ rpcIssued = 1
    /\ rpcCallbacks = 1
    /\ hasActiveListeners
    /\ inFlight = 1
    /\ Terminals = 0

\* C21 (as stated): a poll failure is reported only by emitting 'error';
\* nothing is thrown out of the poll cycle, whether or not an 'error'
\* listener is registered: no emit of the get() callback ever throws.
C21_NeverThrows == thrown = 0

\* C21 (amended): a poll failure, transport or logical, is reported by one
\* emit('error') and nothing else (no 'complete', no timer, no fetch).  The
\* emit returns normally when an 'error' listener is registered at that
\* moment and throws the error out of the get() callback when none is; an
\* answer that is no failure never throws.
C21_FailureEmitsError ==
    [][/\ FailureAnswered =>
            /\ lastEmit'.event = "error"
            /\ emitted'["error"] = emitted["error"] + 1
            /\ emitted'["complete"] = emitted["complete"]
            /\ timers' = timers
            /\ fetches' = fetches
            /\ thrown' = thrown + (IF Registered("error") = 0 THEN 1 ELSE 0)
       /\ (lastStep' = "FetchRespond" /\ ~FailureAnswered) =>
            thrown' = thrown]_vars

C21_Witness ==
    /\ lastStep = "FetchRespond"
    /\ lastEmit.event = "error"
    /\ answer.err \in TransportErrors
    /\ nOn["error"] = 1
    /\ thrown = 0
    /\ emitted["error"] = 1

\* C22: the last-known metadata follows the poll responses: after a status
\* fetch was answered without error, the metadata of the Operation equals
\* the payload of that answer.
C22_MetadataFollowsPoll ==
    (/\ lastStep = "FetchRespond"
     /\ answer.err = None
     /\ answer.resp.error = None) =>
        metadata = answer.resp

\* C24: when the create RPC succeeds, the callback of createFunction
\* receives an Operation whose name is the name field of the RPC response
\* and whose metadata is that response, and that Operation carries the
\* 'complete' interceptor; when the upload or the RPC fails, the callback
\* receives the error and no Operation, and the step creates no Operation;
\* and the one createFunction call whose upload handed an error to the
\* callback never hands it an Operation.  (A successful response without a
\* name makes the factory throw, see C20.)
C24_CreateHandsOperation ==
    /\ [](created # NoCreated =>
            IF created.err = None
            THEN /\ ~nameMissing(created.operation)
                 /\ created.operation = created.apiResponse.name
                 /\ created.metadata = created.apiResponse
            ELSE /\ created.operation \in {None, Undefined}
                 /\ created.metadata = NoMetadata)
    /\ [][created' # created =>
            IF created'.err = None
            THEN /\ lastStep' = "createRespond"
                 /\ handle = "none" =>
                      /\ handle' = "created"
                      /\ name' = created'.operation
                      /\ metadata' = created'.apiResponse
                      /\ intercept'
            ELSE UNCHANGED <<handle, name, metadata, intercept>>]_vars
    /\ []((createPending.calls = 1 /\ createPending.failed) =>
            (created.err # None \/ created = NoCreated))

\* C26: every step that takes the count of 'complete' listeners from 0 to 1
\* issues exactly one fetch within that step, without arming or awaiting a
\* timer, also after earlier unsubscriptions; a step that takes the count
\* from n >= 1 to n + 1 issues no fetch.
C26_FirstSubscriberFetchesAtOnce ==
    [][/\ (completeListeners = 0 /\ completeListeners' = 1) =>
            /\ fetches' = fetches + 1
            /\ inFlight' = inFlight + 1
            /\ timers' = timers
            /\ armed' = armed
       /\ (completeListeners >= 1
             /\ completeListeners' = completeListeners + 1) =>
            /\ fetches' = fetches
            /\ inFlight' = inFlight]_vars

C26_Witness ==
    /\ lastStep = "Subscribe"
    /\ completeRemoved
    /\ completeListeners = 1
    /\ fetches = 2
    /\ inFlight = 1
    /\ timers = 0

\* A step in which a get() is answered without error and not done.
NotDoneAnswered ==
    /\ lastStep' = "FetchRespond"
    /\ answer'.err = None
    /\ answer'.resp.error = None
    /\ ~answer'.resp.done

\* C27: an error-free answer that is not done emits no event and arms
\* exactly one timer, whose delay is 500 ms in every cycle (no backoff); it
\* issues no fetch itself: a fetch is issued only by the expiry of a timer
\* or by the subscription that starts a loop.
C27_NotDoneRearmsFixedDelay ==
    [][/\ NotDoneAnswered =>
            /\ lastEmit' = NoEmit
            /\ emitted' = emitted
            /\ thrown' = thrown
            /\ timers' = timers + 1
            /\ armed' = armed + 1
            /\ lastDelay' = PollDelay
            /\ inFlight' = inFlight - 1
            /\ fetches' = fetches
       /\ fetches' > fetches =>
            \/ lastStep' = "TimerFire" /\ timers' = timers - 1
            \/ completeListeners = 0 /\ completeListeners' > 0]_vars

C27_Witness ==
    /\ lastStep = "FetchRespond"
    /\ answer.err = None
    /\ answer.resp.error = None
    /\ ~answer.resp.done
    /\ lastEmit = NoEmit
    /\ listenersAtAnswer > 0
    /\ armed = 2
    /\ lastDelay = PollDelay
    /\ timers = 1

\* C28: a poll cycle started by a timer expiry while the count of 'complete'
\* listeners is zero issues no fetch, arms no timer and emits no event.  The
\* listener check is made only there: removing a listener cancels neither a
\* pending timer nor an outstanding fetch; a timer goes away only by
\* expiring and a fetch only by being answered.
C28_IdleCycleEndsSilently ==
    [][/\ (lastStep' = "TimerFire" /\ completeListeners = 0) =>
            /\ fetches' = fetches
            /\ inFlight' = inFlight
            /\ timers' = timers - 1
            /\ armed' = armed
            /\ emitted' = emitted
            /\ lastEmit' = lastEmit
       /\ lastStep' = "Unsubscribe" =>
            /\ timers' = timers
            /\ inFlight' = inFlight
       /\ timers' < timers => lastStep' = "TimerFire"
       /\ inFlight' < inFlight => lastStep' = "FetchRespond"]_vars

C28_Witness ==
    /\ lastStep = "TimerFire"
    /\ completeListeners = 0
    /\ completeRemoved
    /\ listenersAtAnswer = 1
    /\ armed = 1
    /\ fetches = 1
    /\ PollLoops = 0

\* C29: after the last 'complete' listener was removed and while none is
\* registered again, the poll loop becomes quiescent after at most one
\* further timer expiry: no more than one timer expires while the listener
\* count stays at zero.
C29_QuiescentAfterOneExpiry == completeListeners = 0 => idleExpiries <= 1

\* C30: completeListeners always equals the number of 'complete' listeners
\* currently registered (and so is never negative), and hasActiveListeners
\* is true exactly when that counter is greater than zero, whatever on(),
\* once(), removeListener() calls and emissions occurred.
C30_CounterMatchesListeners ==
    /\ completeListeners = Registered("complete")
    /\ completeListeners >= 0
    /\ hasActiveListeners <=> (completeListeners > 0)

C30_Witness ==
    /\ lastStep = "FetchRespond"
    /\ lastEmit.event = "complete"
    /\ listenersAtAnswer = 2
    /\ completeListeners = 1
    /\ nOn["complete"] = 1
    /\ Registered("error") = 1
    /\ hasActiveListeners

\* C25: when getFunction succeeds, the callback of CloudFunction.get
\* receives the very instance get() was called on, whose metadata has been
\* updated from the response (every field of the response is in it, the
\* other fields are kept) and whose short name is unchanged; when the RPC
\* fails, the callback receives the error with a null instance and the
\* metadata is unchanged.
C25_GetRefreshesInstance ==
    [][lastStep' = "FunctionRespond" =>
         /\ fnName' = fnName
         /\ IF fnResult'.err = None
            THEN /\ fnResult'.fn = "self"
                 /\ DOMAIN fnMetadata' =
                      DOMAIN fnMetadata \cup DOMAIN fnResult'.apiResponse
                 /\ \A k \in DOMAIN fnResult'.apiResponse :
                      fnMetadata'[k] = fnResult'.apiResponse[k]
                 /\ \A k \in DOMAIN fnMetadata \ DOMAIN fnResult'.apiResponse :
                      fnMetadata'[k] = fnMetadata[k]
            ELSE /\ fnResult'.fn = "null"
                 /\ fnMetadata' = fnMetadata]_vars

C25_Witness ==
    /\ lastStep = "FunctionRespond"
    /\ fnResult.err = None
    /\ fnResult.fn = "self"
    /\ fnName = "fn1"
    /\ "status" \in DOMAIN fnMetadata
    /\ fnMetadata.status = "READY"
    /\ fnMetadata.projectId = "p1"
    /\ fnMetadata.name = functionPath("p1", "r0", "fn1")

\* The steps of the second Operation.
SiblingSteps ==
    {"SiblingOn", "SiblingRemoveListener", "SiblingRespond",
     "SiblingTimerFire"}

\* C23: two Operations of one parent client are independent: a step of one
\* (subscribe, unsubscribe, answer of its fetch, expiry of its timer, its
\* terminal event) leaves the counter, flag, fetches, timers and emitted
\* events of the other as they were, and every fetch is sent under the
\* name of the Operation that issued it.
C23_OperationsIndependent ==
    [][/\ lastStep' \in SiblingSteps =>
            UNCHANGED <<poller, promises>>
       /\ lastStep' \notin SiblingSteps =>
            sibling' = sibling
       /\ fetches' > fetches =>
            lastFetch' = [api |-> "getOperation", name |-> name]
       /\ sibling'.fetches > sibling.fetches =>
            sibling'.lastFetch = [api |-> "getOperation", name |-> sibling.name]
       /\ name # sibling.name]_vars

C23_Witness ==
    /\ lastStep = "SiblingRespond"
    /\ sibling.emitted["complete"] = 1
    /\ sibling.lastFetch.name = SiblingName
    /\ sibling.fetches = 2
    /\ emitted["complete"] = 0
    /\ emitted["error"] = 0
    /\ lastFetch.name = ValidName
    /\ inFlight = 1
    /\ completeListeners = 2

====
